---- MODULE Spec2Model ----
(***************************************************************************)
(* The arcade backend (apps/backend/src/index.ts): the express routes for  *)
(* signup, login, "me", the Demo CRUD and the image upload, over the User  *)
(* and Demo tables.  A request runs synchronously from its arrival through *)
(* the auth middleware and the handler up to each `await prisma...`; the   *)
(* store calls of concurrent requests interleave.  One action of the model *)
(* is one store call together with the synchronous code around it.         *)
(***************************************************************************)
EXTENDS Integers, Sequences, FiniteSets, TLC

VARIABLES
    users,      \* the User table: a set of rows
    demos,      \* the Demo table: a set of rows
    nextDemoId, \* the id the next inserted Demo gets (ids are never reused)
    now,        \* the store's clock, the source of createdAt
    reqs        \* per connection: the request suspended at an await, if any

vars == <<users, demos, nextDemoId, now, reqs>>

(***************************************************************************)
(* Bounds of the model.                                                    *)
(***************************************************************************)
MaxDemos == 2   \* Demos ever inserted
MaxViews == 2   \* get-by-id calls admitted per Demo

Slots == {1, 2} \* connections whose requests may be suspended at once

(***************************************************************************)
(* JSON values of a request body.  A string is itself; the other JSON      *)
(* values a field can hold are these.                                      *)
(***************************************************************************)
Undefined == "<undefined>"
Null == "<null>"
JTrue == "<true>"
JFalse == "<false>"

IsString(v) == v \notin {Undefined, Null, JTrue, JFalse}
IsBoolean(v) == v \in {JTrue, JFalse}

\* zod.string().email() on the addresses the model sends.
IsEmail(v) == IsString(v) /\ v \in {"a@x.com", "b@x.com"}

(***************************************************************************)
(* Session tokens and the Authorization header.  The header is the list    *)
(* of its parts between single spaces (authHeader.split(' ')); a part is a *)
(* plain word or a signed token.                                           *)
(***************************************************************************)
JWT_SECRET == "JWT_SECRET"

Word(s) == [lit |-> s, userId |-> 0, key |-> ""]

jwtSign(userId) == [lit |-> "jwt", userId |-> userId, key |-> JWT_SECRET]

\* a token signed with another key
Forged(userId) == [lit |-> "jwt", userId |-> userId, key |-> "guess"]

jwtVerify(token) == token.lit = "jwt" /\ token.key = JWT_SECRET

NoHeader == <<>>

\* authHeader.startsWith('Bearer ')
StartsWithBearer(authHeader) ==
    Len(authHeader) >= 2 /\ authHeader[1] = Word("Bearer")

Next401 == [status |-> 401, message |-> "Authentication required", userId |-> 0]
Next403 == [status |-> 403, message |-> "Invalid or expired token", userId |-> 0]

authenticateTokenNoVerify(authHeader) ==
    IF authHeader = NoHeader \/ ~StartsWithBearer(authHeader)
    THEN Next401
    ELSE IF authHeader[2].lit = ""
         THEN Next401
         ELSE [status |-> 0, message |-> "", userId |-> authHeader[2].userId]

\* status 0: next() was called with req.user.userId = userId
authenticateToken(authHeader) ==
    IF authHeader = NoHeader \/ ~StartsWithBearer(authHeader)
    THEN Next401
    ELSE LET token == authHeader[2]
         IN  IF token.lit = ""
             THEN Next401
             ELSE IF ~jwtVerify(token)
                  THEN Next403
                  ELSE [status |-> 0, message |-> "", userId |-> token.userId]

(***************************************************************************)
(* Validation schemas.                                                     *)
(***************************************************************************)
signupSchema(body) ==
    /\ IsString(body.name) /\ Len(body.name) >= 3
    /\ IsEmail(body.email)
    /\ IsString(body.password)

signinSchema(body) ==
    /\ IsEmail(body.email)
    /\ IsString(body.password)

demoSchema(body) ==
    /\ IsString(body.title) /\ Len(body.title) >= 1
    /\ IsString(body.description)
    /\ IsString(body.type)
    /\ IsString(body.content)
    /\ (body.thumbnail = Undefined \/ IsString(body.thumbnail))
    /\ (body.url = Undefined \/ IsString(body.url))
    /\ (body.isPublic = Undefined \/ IsBoolean(body.isPublic))

(***************************************************************************)
(* Requests, replies and the outcome of a step.                            *)
(***************************************************************************)
NoBody == [none |-> TRUE]
NoToken == Word("")
NoDemo == [id |-> 0, title |-> "", description |-> "", type |-> "",
           content |-> "", thumbnail |-> Null, url |-> Null,
           isPublic |-> JFalse, views |-> 0, userId |-> 0, createdAt |-> 0]

\* user: req.user.userId (0: not set); id: req.params.id; queries: the
\* store calls made for the request so far
Req(route, hdr, user, id, body, queries) ==
    [route |-> route, hdr |-> hdr, user |-> user, id |-> id, body |-> body,
     queries |-> queries]

NoReq == Req("none", NoHeader, 0, 0, NoBody, 0)

\* stage: the code that sent the reply, the middleware or the handler
Reply(req, stage, status, message, token, demo, list) ==
    [req |-> req, stage |-> stage, status |-> status, message |-> message,
     token |-> token, demo |-> demo, list |-> list]

\* no reply yet: the request is suspended at its next store call
NoReply == Reply(NoReq, "none", 0, "", NoToken, NoDemo, <<>>)

\* a handler's res.status(status).json({message})
Json(req, status, message) ==
    Reply(req, "handler", status, message, NoToken, NoDemo, <<>>)

Idle == [pc |-> "idle", req |-> NoReq, demo |-> NoDemo]

Suspended(pc, req, demo) == [pc |-> pc, req |-> req, demo |-> demo]

\* a step that answers and leaves the store as it is
Answer(reply) ==
    [reply |-> reply, next |-> Idle, users |-> users, demos |-> demos,
     nextDemoId |-> nextDemoId, now |-> now]

\* a step that read the store and suspends the request at its next call
Await(pc, req, demo) ==
    [reply |-> NoReply, next |-> Suspended(pc, req, demo), users |-> users,
     demos |-> demos, nextDemoId |-> nextDemoId, now |-> now]

\* the middleware's rejection of a request to a protected route: the handler
\* does not run
Rejected(route, hdr, a) ==
    Answer(Reply(Req(route, hdr, 0, 0, NoBody, 0), "middleware", a.status,
                 a.message, NoToken, NoDemo, <<>>))

\* the step of connection s with outcome o
Apply(s, o) ==
    /\ reqs' = [reqs EXCEPT ![s] = o.next]
    /\ users' = o.users
    /\ demos' = o.demos
    /\ nextDemoId' = o.nextDemoId
    /\ now' = o.now

\* a request that is answered without being suspended
ApplyAnswer(o) ==
    /\ o.next = Idle
    /\ users' = o.users
    /\ demos' = o.demos
    /\ nextDemoId' = o.nextDemoId
    /\ now' = o.now
    /\ UNCHANGED reqs

\* a new request takes the first free connection
Free(s) ==
    /\ reqs[s].pc = "idle"
    /\ \A t \in Slots : t < s => reqs[t].pc # "idle"

(***************************************************************************)
(* What clients send.  A client holds a signed token only for a User that  *)
(* exists: signup and login are the only code that signs.                  *)
(***************************************************************************)
BadHeaders ==
    {NoHeader,
     <<Word("Basic"), Word("QW5uOnA=")>>,
     <<Word("Bearer")>>,
     <<Word("Bearer"), Word(""), Forged(1)>>,
     <<Word("Bearer"), Forged(1)>>}

Headers == BadHeaders \cup {<<Word("Bearer"), jwtSign(u.id)>> : u \in users}

SignupBodies ==
    [name : {"Al", "Ann", "Bob"}, email : {"a@x.com", "b@x.com", "nomail"},
     password : {"p", "q"}, confirmPassword : {"p", "q", Undefined}]

LoginBodies ==
    [email : {"a@x.com", "b@x.com", "nomail"}, password : {"p", "q", Undefined}]

Init ==
    /\ users = {}
    /\ demos = {}
    /\ nextDemoId = 1
    /\ now = 0
    /\ reqs = [s \in Slots |-> Idle]

(***************************************************************************)
(* POST /api/auth/signup                                                   *)
(***************************************************************************)
\* prisma.user.findUnique({ where: { email } })
FindUserByEmail(email) == {u \in users : u.email = email}

NoUniqueIndex(email) == FALSE

\* the User table's unique index on email rejects the insert
EmailUniqueViolation(email) == \E u \in users : u.email = email

NewUserId == Cardinality(users) + 1

SignupFirstNoLookup(body) ==
    IF ~signupSchema(body)
    THEN Answer(Json(Req("signup", NoHeader, 0, 0, body, 0), 411, "Invalid input data"))
    ELSE IF body.password # body.confirmPassword
    THEN Answer(Json(Req("signup", NoHeader, 0, 0, body, 0), 411, "Passwords do not match"))
    ELSE Await("signup_create", Req("signup", NoHeader, 0, 0, body, 1), NoDemo)

\* the handler up to and including its findUnique
SignupFirst(body) ==
    LET early == Req("signup", NoHeader, 0, 0, body, 0)
        req == Req("signup", NoHeader, 0, 0, body, 1)
    IN  IF ~signupSchema(body)
        THEN Answer(Json(early, 411, "Invalid input data"))
        ELSE IF body.password # body.confirmPassword
        THEN Answer(Json(early, 411, "Passwords do not match"))
        ELSE IF FindUserByEmail(body.email) # {}
        THEN Answer(Json(req, 411, "Email already taken"))
        ELSE Await("signup_create", req, NoDemo)

SignupCreateWrongToken(r) ==
    LET req == [r.req EXCEPT !.queries = 2]
        user == [id |-> NewUserId, email |-> req.body.email,
                 password |-> req.body.password, name |-> req.body.name]
    IN  IF EmailUniqueViolation(req.body.email)
        THEN Answer(Json(req, 500, "Internal server error"))
        ELSE [Answer(Reply(req, "handler", 200, "User created successfully",
                           jwtSign(1), NoDemo, <<>>))
              EXCEPT !.users = users \cup {user}]

\* prisma.user.create, jwt.sign and the reply; a throw is caught: 500
SignupCreate(r) ==
    LET req == [r.req EXCEPT !.queries = 2]
        user == [id |-> NewUserId, email |-> req.body.email,
                 password |-> req.body.password, name |-> req.body.name]
    IN  IF EmailUniqueViolation(req.body.email)
        THEN Answer(Json(req, 500, "Internal server error"))
        ELSE [Answer(Reply(req, "handler", 200, "User created successfully",
                           jwtSign(user.id), NoDemo, <<>>))
              EXCEPT !.users = users \cup {user}]

DoSignup(s) ==
    /\ Free(s)
    /\ \E body \in SignupBodies : Apply(s, SignupFirst(body))

DoSignupCreate(s) ==
    /\ reqs[s].pc = "signup_create"
    /\ Apply(s, SignupCreate(reqs[s]))

(***************************************************************************)
(* POST /api/auth/login                                                    *)
(***************************************************************************)
LoginNoPasswordCheck(body) ==
    LET req == Req("login", NoHeader, 0, 0, body, 1)
    IN  IF ~signinSchema(body)
        THEN {Answer(Json(Req("login", NoHeader, 0, 0, body, 0), 400,
                          "Invalid email or password format"))}
        ELSE IF FindUserByEmail(body.email) = {}
        THEN {Answer(Json(req, 401, "Invalid email or password"))}
        ELSE {Answer(Reply(req, "handler", 200, "", jwtSign(u.id), NoDemo, <<>>)) :
                 u \in FindUserByEmail(body.email)}

\* the outcomes of a login: one for each row findUnique may return
Login(body) ==
    LET early == Req("login", NoHeader, 0, 0, body, 0)
        req == Req("login", NoHeader, 0, 0, body, 1)
        found == FindUserByEmail(body.email)
    IN  IF ~signinSchema(body)
        THEN {Answer(Json(early, 400, "Invalid email or password format"))}
        ELSE IF found = {}
        THEN {Answer(Json(req, 401, "Invalid email or password"))}
        ELSE {IF user.password # body.password
              THEN Answer(Json(req, 401, "Invalid email or password"))
              ELSE Answer(Reply(req, "handler", 200, "", jwtSign(user.id),
                                NoDemo, <<>>)) :
                 user \in found}

DoLogin == \E body \in LoginBodies : \E o \in Login(body) : ApplyAnswer(o)

(***************************************************************************)
(* GET /api/auth/me                                                        *)
(***************************************************************************)
\* prisma.user.findUnique({ where: { id } })
FindUserById(id) == {u \in users : u.id = id}

Me(hdr) ==
    LET a == authenticateToken(hdr)
        req == Req("me", hdr, a.userId, 0, NoBody, 1)
    IN  IF a.status # 0
        THEN Rejected("me", hdr, a)
        ELSE IF FindUserById(a.userId) = {}
        THEN Answer(Json(req, 404, "User not found"))
        ELSE Answer(Json(req, 200, ""))

DoMe == \E hdr \in Headers : ApplyAnswer(Me(hdr))

(***************************************************************************)
(* The Demo payloads clients send: a full one, one with the optional       *)
(* fields left out, and two the schema rejects.                            *)
(***************************************************************************)
BodyFull ==
    [title |-> "A", description |-> "d1", type |-> "html", content |-> "c1",
     thumbnail |-> "th", url |-> "u", isPublic |-> JTrue]
BodyMin ==
    [title |-> "B", description |-> "d2", type |-> "video", content |-> "c2",
     thumbnail |-> Undefined, url |-> Undefined, isPublic |-> Undefined]
BodyNoTitle == [BodyFull EXCEPT !.title = ""]
BodyBadFlag == [BodyMin EXCEPT !.isPublic = "yes"]

DemoBodies == {BodyFull, BodyMin, BodyNoTitle, BodyBadFlag}

DemoIds == 1..MaxDemos

\* the createdAt the clock gives the next insert: it advances between inserts
Times == {now + 1}

(***************************************************************************)
(* The store's treatment of a field given as undefined: an insert stores   *)
(* the column's default, an update leaves the column as it is.             *)
(***************************************************************************)
OrDefault(v, default) == IF v = Undefined THEN default ELSE v

Assign(old, v) == IF v = Undefined THEN old ELSE v

\* the isPublic column's default
IsPublicDefault == JFalse

(***************************************************************************)
(* POST /api/demos                                                         *)
(***************************************************************************)
CreateDataFirstUser(body, userId, createdAt) ==
    [id |-> nextDemoId, title |-> body.title, description |-> body.description,
     type |-> body.type, content |-> body.content,
     thumbnail |-> OrDefault(body.thumbnail, Null),
     url |-> OrDefault(body.url, Null),
     isPublic |-> OrDefault(body.isPublic, IsPublicDefault),
     views |-> 0, userId |-> 1, createdAt |-> createdAt]

\* the row prisma.demo.create inserts
CreateData(body, userId, createdAt) ==
    [id |-> nextDemoId, title |-> body.title, description |-> body.description,
     type |-> body.type, content |-> body.content,
     thumbnail |-> OrDefault(body.thumbnail, Null),
     url |-> OrDefault(body.url, Null),
     isPublic |-> OrDefault(body.isPublic, IsPublicDefault),
     views |-> 0, userId |-> userId, createdAt |-> createdAt]

\* createdAt: the clock when the store inserts the row
CreateDemo(hdr, body, createdAt) ==
    LET a == authenticateToken(hdr)
        early == Req("create", hdr, a.userId, 0, body, 0)
        req == Req("create", hdr, a.userId, 0, body, 1)
        demo == CreateData(body, a.userId, createdAt)
    IN  IF a.status # 0
        THEN Rejected("create", hdr, a)
        ELSE IF ~demoSchema(body)
        THEN Answer(Json(early, 400, "Invalid demo data"))
        ELSE IF FindUserById(a.userId) = {}
        THEN \* connect: { id } finds no User: the create throws
             Answer(Json(req, 500, "Internal server error"))
        ELSE [Answer(Reply(req, "handler", 201, "", NoToken, demo, <<>>))
              EXCEPT !.demos = demos \cup {demo},
                     !.nextDemoId = nextDemoId + 1,
                     !.now = createdAt]

DoCreateDemo ==
    \E hdr \in Headers, body \in DemoBodies, t \in Times :
        /\ CreateDemo(hdr, body, t).demos # demos => nextDemoId <= MaxDemos
        /\ ApplyAnswer(CreateDemo(hdr, body, t))

(***************************************************************************)
(* GET /api/demos                                                          *)
(***************************************************************************)
\* the orders of the rows S that orderBy: { createdAt: 'desc' } allows
NewestFirst(S) ==
    {l \in [1..Cardinality(S) -> S] :
        /\ \A i, j \in 1..Cardinality(S) : i # j => l[i] # l[j]
        /\ \A i, j \in 1..Cardinality(S) :
              i < j => l[i].createdAt >= l[j].createdAt}

FindManyAnyOwner(userId) == NewestFirst(demos)

\* prisma.demo.findMany({ where: { user: { id } }, orderBy })
FindMany(userId) == NewestFirst({d \in demos : d.userId = userId})

\* the outcomes of a list: one for each order the store may return
ListDemos(hdr) ==
    LET a == authenticateToken(hdr)
        req == Req("list", hdr, a.userId, 0, NoBody, 1)
    IN  IF a.status # 0
        THEN {Rejected("list", hdr, a)}
        ELSE {Answer(Reply(req, "handler", 200, "", NoToken, NoDemo, l)) :
                 l \in FindMany(a.userId)}

DoListDemos == \E hdr \in Headers : \E o \in ListDemos(hdr) : ApplyAnswer(o)

(***************************************************************************)
(* GET /api/demos/:id                                                      *)
(***************************************************************************)
FindFirstAnyOwner(id, userId) == {d \in demos : d.id = id}

\* prisma.demo.findFirst({ where: { id, user: { id: userId } } })
FindFirst(id, userId) == {d \in demos : d.id = id /\ d.userId = userId}

\* the row `where: { id }` of an update or a delete addresses
RowById(id) == {d \in demos : d.id = id}

\* the handler up to and including its findFirst
GetDemoFirst(hdr, id) ==
    LET a == authenticateToken(hdr)
        req == Req("get", hdr, a.userId, id, NoBody, 1)
        found == FindFirst(id, a.userId)
    IN  IF a.status # 0
        THEN Rejected("get", hdr, a)
        ELSE IF found = {}
        THEN Answer(Json(req, 404, "Demo not found"))
        ELSE Await("get_update", req, CHOOSE demo \in found : TRUE)

IncrementViewsBy2(demo) == [demo EXCEPT !.views = @ + 2]

\* data: { views: { increment: 1 } }
IncrementViews(demo) == [demo EXCEPT !.views = @ + 1]

\* a store whose update writes a missing row instead of throwing
GetDemoUpdateWriteBack(r) ==
    LET req == [r.req EXCEPT !.queries = 2]
        row == RowById(req.id)
    IN  [Answer(Reply(req, "handler", 200, "", NoToken, r.demo, <<>>))
         EXCEPT !.demos = (demos \ row) \cup {IncrementViews(r.demo)}]

\* prisma.demo.update of the view counter, then res.json(demo) with the row
\* the lookup read; the update throws when the row is gone: 500
GetDemoUpdate(r) ==
    LET req == [r.req EXCEPT !.queries = 2]
        row == RowById(req.id)
    IN  IF row = {}
        THEN Answer(Json(req, 500, "Internal server error"))
        ELSE [Answer(Reply(req, "handler", 200, "", NoToken, r.demo, <<>>))
              EXCEPT !.demos = (demos \ row) \cup {IncrementViews(d) : d \in row}]

\* get-by-id calls that passed their lookup and have yet to increment
PendingViews(id) ==
    Cardinality({s \in Slots : reqs[s].pc = "get_update" /\ reqs[s].req.id = id})

DoGetDemo(s) ==
    /\ Free(s)
    /\ \E hdr \in Headers, id \in DemoIds :
        /\ \A d \in RowById(id) : d.views + PendingViews(id) < MaxViews
        /\ Apply(s, GetDemoFirst(hdr, id))

DoGetDemoUpdate(s) ==
    /\ reqs[s].pc = "get_update"
    /\ Apply(s, GetDemoUpdate(reqs[s]))

(***************************************************************************)
(* PUT /api/demos/:id                                                      *)
(***************************************************************************)
\* the row after prisma.demo.update with the seven fields of req.body
UpdateData(demo, body) ==
    [demo EXCEPT !.title = Assign(@, body.title),
                 !.description = Assign(@, body.description),
                 !.type = Assign(@, body.type),
                 !.content = Assign(@, body.content),
                 !.thumbnail = Assign(@, body.thumbnail),
                 !.url = Assign(@, body.url),
                 !.isPublic = Assign(@, body.isPublic)]

\* the handler up to and including its findFirst
PutDemoFirst(hdr, id, body) ==
    LET a == authenticateToken(hdr)
        early == Req("put", hdr, a.userId, id, body, 0)
        req == Req("put", hdr, a.userId, id, body, 1)
        found == FindFirst(id, a.userId)
    IN  IF a.status # 0
        THEN Rejected("put", hdr, a)
        ELSE IF ~demoSchema(body)
        THEN Answer(Json(early, 400, "Invalid demo data"))
        ELSE IF found = {}
        THEN Answer(Json(req, 404, "Demo not found"))
        ELSE Await("put_update", req, NoDemo)

\* prisma.demo.update, then res.json(updatedDemo); a throw is caught: 500
PutDemoUpdate(r) ==
    LET req == [r.req EXCEPT !.queries = 2]
        row == RowById(req.id)
        updatedDemo == UpdateData(CHOOSE d \in row : TRUE, req.body)
    IN  IF row = {}
        THEN Answer(Json(req, 500, "Internal server error"))
        ELSE [Answer(Reply(req, "handler", 200, "", NoToken, updatedDemo, <<>>))
              EXCEPT !.demos = (demos \ row) \cup {updatedDemo}]

DoPutDemo(s) ==
    /\ Free(s)
    /\ \E hdr \in Headers, id \in DemoIds, body \in DemoBodies :
        Apply(s, PutDemoFirst(hdr, id, body))

DoPutDemoUpdate(s) ==
    /\ reqs[s].pc = "put_update"
    /\ Apply(s, PutDemoUpdate(reqs[s]))

(***************************************************************************)
(* DELETE /api/demos/:id                                                   *)
(***************************************************************************)
\* the handler up to and including its findFirst
DeleteDemoFirst(hdr, id) ==
    LET a == authenticateToken(hdr)
        req == Req("delete", hdr, a.userId, id, NoBody, 1)
        found == FindFirst(id, a.userId)
    IN  IF a.status # 0
        THEN Rejected("delete", hdr, a)
        ELSE IF found = {}
        THEN Answer(Json(req, 404, "Demo not found"))
        ELSE Await("delete_delete", req, NoDemo)

\* prisma.demo.delete, then the confirmation; a throw is caught: 500
DeleteDemoDelete(r) ==
    LET req == [r.req EXCEPT !.queries = 2]
        row == RowById(req.id)
    IN  IF row = {}
        THEN Answer(Json(req, 500, "Internal server error"))
        ELSE [Answer(Json(req, 200, "Demo deleted successfully"))
              EXCEPT !.demos = demos \ row]

DoDeleteDemo(s) ==
    /\ Free(s)
    /\ \E hdr \in Headers, id \in DemoIds : Apply(s, DeleteDemoFirst(hdr, id))

DoDeleteDemoDelete(s) ==
    /\ reqs[s].pc = "delete_delete"
    /\ Apply(s, DeleteDemoDelete(reqs[s]))

(***************************************************************************)
(* POST /api/upload-image: no store call; the object storage is outside.   *)
(***************************************************************************)
\* process.env.CLOUDFLARE_R2_BUCKET_NAME || "": the variable as the process
\* was started with it (Undefined: not set)
R2_BUCKET_NAME(env) == IF env = Undefined \/ env = "" THEN "" ELSE env

\* the environments a process is started with: nothing in the repository
\* sets the variable
BucketEnvs == {Undefined, "", "arcade"}

\* file: req.file is set; sent: r2Client.send did not throw
UploadImage(env, hdr, file, sent) ==
    LET a == authenticateToken(hdr)
        req == Req("upload", hdr, a.userId, 0, [file |-> file], 0)
    IN  IF a.status # 0
        THEN Rejected("upload", hdr, a)
        ELSE IF ~file
        THEN Answer(Json(req, 400, "No image file provided"))
        ELSE IF R2_BUCKET_NAME(env) = ""
        THEN Answer(Json(req, 500, "R2 bucket name not configured"))
        ELSE IF ~sent
        THEN Answer(Json(req, 500, "Upload to R2 failed"))
        ELSE Answer(Json(req, 200, ""))

DoUploadImage ==
    \E env \in BucketEnvs, hdr \in Headers, file \in BOOLEAN, sent \in BOOLEAN :
        ApplyAnswer(UploadImage(env, hdr, file, sent))

(***************************************************************************)
(* The account routes, from the empty store.                               *)
(***************************************************************************)
NextAuth ==
    \/ \E s \in Slots : DoSignup(s)
    \/ \E s \in Slots : DoSignupCreate(s)
    \/ DoLogin
    \/ DoMe

SpecAuth == Init /\ [][NextAuth]_vars

(***************************************************************************)
(* The protected routes, from the store two signups leave: Ann and Bob     *)
(* registered, no Demo yet.                                                *)
(***************************************************************************)
InitDemo ==
    /\ users = {[id |-> 1, email |-> "a@x.com", password |-> "p", name |-> "Ann"],
                [id |-> 2, email |-> "b@x.com", password |-> "q", name |-> "Bob"]}
    /\ demos = {}
    /\ nextDemoId = 1
    /\ now = 0
    /\ reqs = [s \in Slots |-> Idle]

Next ==
    \/ DoMe
    \/ DoCreateDemo
    \/ DoListDemos
    \/ \E s \in Slots : DoGetDemo(s)
    \/ \E s \in Slots : DoGetDemoUpdate(s)
    \/ \E s \in Slots : DoPutDemo(s)
    \/ \E s \in Slots : DoPutDemoUpdate(s)
    \/ \E s \in Slots : DoDeleteDemo(s)
    \/ \E s \in Slots : DoDeleteDemoDelete(s)
    \/ DoUploadImage

Spec == InitDemo /\ [][Next]_vars

\* the event loop resumes a handler once the store call it awaits has
\* settled, by returning or by throwing: no request stays suspended at a
\* store call for ever
FairSpec ==
    /\ Spec
    /\ \A s \in Slots :
          /\ WF_vars(DoGetDemoUpdate(s))
          /\ WF_vars(DoPutDemoUpdate(s))
          /\ WF_vars(DoDeleteDemoDelete(s))

(***************************************************************************)
(* Properties.  Each is stated of every reachable state and every request  *)
(* a client can send in it.                                                *)
(***************************************************************************)
\* the header of a client logged in as the User with this id
TokenHeader(userId) == <<Word("Bearer"), jwtSign(userId)>>

\* the step answered the request and wrote nothing
NoEffect(o) ==
    /\ o.next = Idle
    /\ o.users = users
    /\ o.demos = demos
    /\ o.nextDemoId = nextDemoId

\* the Demos of the store owned by someone other than the User u
ForeignDemos(u) == {d \in demos : d.userId # u.id}

\* C1 as claimed: a get-by-id, an update or a delete by a logged-in user
\* against another user's Demo is answered 404 whatever the body, and writes
\* nothing.
C1_Original ==
    \A u \in users : \A d \in ForeignDemos(u) :
        /\ GetDemoFirst(TokenHeader(u.id), d.id).reply.status = 404
        /\ NoEffect(GetDemoFirst(TokenHeader(u.id), d.id))
        /\ DeleteDemoFirst(TokenHeader(u.id), d.id).reply.status = 404
        /\ NoEffect(DeleteDemoFirst(TokenHeader(u.id), d.id))
        /\ \A body \in DemoBodies :
              /\ PutDemoFirst(TokenHeader(u.id), d.id, body).reply.status = 404
              /\ NoEffect(PutDemoFirst(TokenHeader(u.id), d.id, body))

\* C1, amended: a get-by-id or a delete by a logged-in user against another
\* user's Demo is answered 404; an update is answered 404 when its body passes
\* the demo schema and 400 when it does not; none of them writes anything or
\* goes on to a store write.
C1_CrossUserDenied ==
    \A u \in users : \A d \in ForeignDemos(u) :
        /\ GetDemoFirst(TokenHeader(u.id), d.id).reply.status = 404
        /\ NoEffect(GetDemoFirst(TokenHeader(u.id), d.id))
        /\ DeleteDemoFirst(TokenHeader(u.id), d.id).reply.status = 404
        /\ NoEffect(DeleteDemoFirst(TokenHeader(u.id), d.id))
        /\ \A body \in DemoBodies :
              /\ PutDemoFirst(TokenHeader(u.id), d.id, body).reply.status
                    = IF demoSchema(body) THEN 404 ELSE 400
              /\ NoEffect(PutDemoFirst(TokenHeader(u.id), d.id, body))

\* Each user owns a Demo, and Ann's has been read by her: Bob's requests
\* against it are the cross-user requests.
C1_Witness ==
    \E d \in demos, e \in demos :
        /\ d.userId = 1 /\ d.views > 0
        /\ e.userId = 2
        /\ GetDemoFirst(TokenHeader(2), d.id).reply.status = 404
        /\ PutDemoFirst(TokenHeader(2), d.id, BodyNoTitle).reply.status = 400

\* the emails of the table
Registered == {u.email : u \in users}

\* C2 as claimed: a signup with a registered email is answered 411 "Email
\* already taken" whatever the other fields, and inserts nothing.
C2_Original ==
    \A body \in SignupBodies :
        body.email \in Registered =>
            /\ SignupFirst(body).reply.status = 411
            /\ SignupFirst(body).reply.message = "Email already taken"
            /\ NoEffect(SignupFirst(body))

\* C2, amended: a signup with a registered email is answered 411 whatever the
\* other fields, and inserts nothing; the message is "Email already taken"
\* when the body passes the signup schema and the passwords match, "Invalid
\* input data" when the schema fails and "Passwords do not match" otherwise.
C2_DuplicateEmailRejected ==
    \A body \in SignupBodies :
        body.email \in Registered =>
            /\ SignupFirst(body).reply.status = 411
            /\ SignupFirst(body).reply.message
                  = IF ~signupSchema(body) THEN "Invalid input data"
                    ELSE IF body.password # body.confirmPassword
                    THEN "Passwords do not match"
                    ELSE "Email already taken"
            /\ NoEffect(SignupFirst(body))

\* Ann is registered and signs up again with a valid body.
C2_Witness ==
    \E body \in SignupBodies :
        /\ body.email \in Registered
        /\ signupSchema(body)
        /\ body.password = body.confirmPassword
        /\ SignupFirst(body).reply.message = "Email already taken"

\* the signup suspended on connection s created its User: one new row with
\* the body's email, and a token that verifies and carries the row's id
SignupSucceeded(s) ==
    LET o == SignupCreate(reqs[s])
        body == reqs[s].req.body
    IN  /\ o.reply.status = 200
        /\ Cardinality(o.users \ users) = 1
        /\ users \subseteq o.users
        /\ \A row \in o.users \ users :
              /\ row.email = body.email
              /\ row.password = body.password
              /\ row.name = body.name
              /\ \A u \in users : u.id # row.id
              /\ jwtVerify(o.reply.token)
              /\ o.reply.token.userId = row.id

\* C3 as claimed: a signup with an email no User has always succeeds.
C3_Original ==
    /\ \A body \in SignupBodies :
          body.email \notin Registered => SignupFirst(body).reply = NoReply
    /\ \A s \in Slots : reqs[s].pc = "signup_create" => SignupSucceeded(s)

\* C3, amended: a signup with an email no User has goes on to its insert
\* exactly when its body passes the signup schema and the passwords match,
\* and is answered 411 without an insert otherwise; the insert succeeds
\* exactly when still no User has the email: one row with the body's email
\* is added and the token carries that row's id; when another signup has
\* registered the email in between, the reply is 500 and no row is added.
C3_FreshEmailSignup ==
    /\ \A body \in SignupBodies :
          body.email \notin Registered =>
              IF signupSchema(body) /\ body.password = body.confirmPassword
              THEN /\ SignupFirst(body).reply = NoReply
                   /\ SignupFirst(body).next.pc = "signup_create"
                   /\ SignupFirst(body).next.req.body = body
                   /\ SignupFirst(body).users = users
              ELSE /\ SignupFirst(body).reply.status = 411
                   /\ NoEffect(SignupFirst(body))
    /\ \A s \in Slots :
          reqs[s].pc = "signup_create" =>
              IF reqs[s].req.body.email \notin Registered
              THEN SignupSucceeded(s)
              ELSE /\ SignupCreate(reqs[s]).reply.status = 500
                   /\ NoEffect(SignupCreate(reqs[s]))

\* Ann is registered and Bob's signup has passed its lookup: its insert adds
\* the second row.
C3_Witness ==
    \E s \in Slots :
        /\ reqs[s].pc = "signup_create"
        /\ Cardinality(users) = 1
        /\ reqs[s].req.body.email \notin Registered

\* C4: no two User rows have the same email, also when two signups for one
\* email both pass their lookup before either inserts.
C4_EmailUnique ==
    \A u \in users, v \in users : u.email = v.email => u = v

\* Two signups for one email passed their lookups; the first has inserted its
\* row and the second is about to insert.
C4_Witness ==
    \E s \in Slots :
        /\ reqs[s].pc = "signup_create"
        /\ reqs[s].req.body.email \in Registered

\* the Users a login body names with their password
Matching(body) ==
    {u \in users : u.email = body.email /\ u.password = body.password}

\* C5: a login with a well-formed body returns a token carrying the id of a
\* User exactly when that User has the body's email and password; otherwise
\* it is answered 401 "Invalid email or password", the same for an unknown
\* email and for a wrong password; it never changes the store.
C5_Login ==
    \A body \in LoginBodies :
        signinSchema(body) =>
            /\ Login(body) # {}
            /\ \A o \in Login(body) :
                  /\ NoEffect(o)
                  /\ IF Matching(body) # {}
                     THEN /\ o.reply.status = 200
                          /\ jwtVerify(o.reply.token)
                          /\ \E u \in Matching(body) : o.reply.token.userId = u.id
                     ELSE /\ o.reply.status = 401
                          /\ o.reply.message = "Invalid email or password"
                          /\ o.reply.token = NoToken

\* Bob is the second User, registered with password "q": a login with "q"
\* returns his token, one with "p" and one for an unregistered email are
\* refused alike.
C5_Witness ==
    /\ \E u \in users : u.id = 2 /\ u.email = "b@x.com" /\ u.password = "q"
    /\ "a@x.com" \in Registered
    /\ \E o \in Login([email |-> "b@x.com", password |-> "q"]) :
          o.reply.status = 200 /\ o.reply.token.userId = 2
    /\ \E o \in Login([email |-> "b@x.com", password |-> "p"]) :
          o.reply.status = 401

\* the get-by-id calls suspended at their increment whose Demo is in the store
PendingGets == {s \in Slots : reqs[s].pc = "get_update" /\ RowById(reqs[s].req.id) # {}}

\* the increment of connection s adds exactly 1 to its Demo's stored counter
\* and changes nothing else of the store
CountsOneView(s) ==
    LET o == GetDemoUpdate(reqs[s])
        row == RowById(reqs[s].req.id)
    IN  /\ o.reply.status = 200
        /\ o.users = users
        /\ demos \ row \subseteq o.demos
        /\ Cardinality(o.demos) = Cardinality(demos)
        /\ \A d \in row : [d EXCEPT !.views = d.views + 1] \in o.demos

\* C6 as claimed: a get-by-id by the owner raises the stored counter by
\* exactly 1 and returns the record with the counter value it had before that
\* increment.
C6_Original ==
    \A s \in PendingGets :
        /\ CountsOneView(s)
        /\ \A d \in RowById(reqs[s].req.id) :
              GetDemoUpdate(reqs[s]).reply.demo.views = d.views

\* a step changes the counter of a Demo it keeps only by adding 1, in the
\* increment of a get-by-id of that Demo; a Demo it inserts has counter 0
ViewsStep ==
    /\ \A d \in demos, e \in demos' :
          d.id = e.id /\ d.views # e.views =>
              /\ e.views = d.views + 1
              /\ \E s \in Slots :
                    /\ reqs[s].pc = "get_update"
                    /\ reqs[s].req.id = d.id
                    /\ reqs'[s] = Idle
    /\ \A e \in demos' : (\A d \in demos : d.id # e.id) => e.views = 0

\* C6, amended: a get-by-id of a Demo by its owner whose increment finds the
\* Demo still stored raises the stored counter by exactly 1 and returns the
\* record its lookup read, whose counter is at most the value the counter
\* had before that increment (less when another get-by-id of the Demo
\* incremented in between); a Demo is inserted with counter 0 and no other
\* step changes a counter, so the counter of a Demo is the number of its
\* completed get-by-id calls and never decreases.
C6_ViewCounter ==
    /\ [](\A s \in PendingGets :
            /\ CountsOneView(s)
            /\ GetDemoUpdate(reqs[s]).reply.demo = reqs[s].demo
            /\ \A d \in RowById(reqs[s].req.id) :
                  GetDemoUpdate(reqs[s]).reply.demo.views <= d.views)
    /\ [][ViewsStep]_vars

\* Two get-by-id calls of one Demo passed their lookups at counter 0; the
\* first has incremented, the second is about to return the record it read.
C6_Witness ==
    \E s \in PendingGets : \E d \in RowById(reqs[s].req.id) :
        /\ d.views = 1
        /\ reqs[s].demo.views = 0
        /\ reqs[s].req.user = d.userId

\* the header carries no usable token: absent, another scheme, "Bearer"
\* alone, or an empty token part
NoBearerToken(hdr) ==
    \/ Len(hdr) < 2
    \/ hdr[1].lit # "Bearer"
    \/ hdr[2].lit = ""

\* the token part of the header was signed by this server
Verified(hdr) == hdr[2].lit = "jwt" /\ hdr[2].key = JWT_SECRET

\* the outcomes of the first step of a request to a protected route
ProtectedOutcomes(hdr) ==
    {Me(hdr)}
    \cup {CreateDemo(hdr, body, t) : body \in DemoBodies, t \in Times}
    \cup ListDemos(hdr)
    \cup {GetDemoFirst(hdr, id) : id \in DemoIds}
    \cup {PutDemoFirst(hdr, x[1], x[2]) : x \in DemoIds \X DemoBodies}
    \cup {DeleteDemoFirst(hdr, id) : id \in DemoIds}
    \cup {UploadImage(env, hdr, x[1], x[2]) :
             env \in BucketEnvs, x \in BOOLEAN \X BOOLEAN}

\* the middleware answered with this status: the handler did not run, the
\* store was neither read nor written
StoppedAt(o, status) ==
    /\ o.reply.status = status
    /\ o.reply.stage = "middleware"
    /\ o.reply.req.user = 0
    /\ o.reply.req.queries = 0
    /\ NoEffect(o)

\* the handler ran for this user: it answered, or is suspended at a store call
RanFor(o, userId) ==
    IF o.reply = NoReply
    THEN o.next.pc # "idle" /\ o.next.req.user = userId
    ELSE o.reply.stage = "handler" /\ o.reply.req.user = userId

\* C7: on every protected route a request without a bearer token is answered
\* 401 and one whose token fails verification 403, by the middleware, without
\* the handler running and without a read or write of the store; with a
\* verified token the handler runs with the userId embedded in the token.
C7_AuthMiddleware ==
    /\ \A hdr \in Headers : \A o \in ProtectedOutcomes(hdr) :
          IF NoBearerToken(hdr) THEN StoppedAt(o, 401)
          ELSE IF ~Verified(hdr) THEN StoppedAt(o, 403)
          ELSE RanFor(o, hdr[2].userId)
    /\ \A s \in Slots :
          reqs[s].pc # "idle" =>
              /\ ~NoBearerToken(reqs[s].req.hdr)
              /\ Verified(reqs[s].req.hdr)
              /\ reqs[s].req.user = reqs[s].req.hdr[2].userId

\* Ann's Demo is stored and her update of it is suspended at its write: the
\* same update with a forged token for Ann stops at the middleware.
C7_Witness ==
    \E s \in Slots : \E d \in demos :
        /\ reqs[s].pc = "put_update"
        /\ reqs[s].req.id = d.id
        /\ d.userId = 1
        /\ PutDemoFirst(<<Word("Bearer"), Forged(1)>>, d.id, BodyFull).reply.status = 403
        /\ PutDemoFirst(NoHeader, d.id, BodyFull).reply.status = 401

\* a step keeps the owner of every Demo it keeps, and inserts a Demo only
\* with counter 0, the next id and an existing owner
OwnerStep ==
    /\ \A d \in demos, e \in demos' : d.id = e.id => e.userId = d.userId
    /\ \A e \in demos' :
          (\A d \in demos : d.id # e.id) =>
              /\ e.views = 0
              /\ e.id = nextDemoId
              /\ \E u \in users : u.id = e.userId

\* C8: every Demo has exactly one owner, an existing User; a create inserts
\* one Demo, owned by the user of the request's token, with view counter 0;
\* no step changes the owner of a Demo.
C8_Ownership ==
    /\ [](/\ \A d \in demos : Cardinality({u \in users : u.id = d.userId}) = 1
          /\ \A d \in demos, e \in demos : d.id = e.id => d = e
          /\ \A u \in users, body \in DemoBodies, t \in Times :
                LET o == CreateDemo(TokenHeader(u.id), body, t)
                IN  /\ demos \subseteq o.demos
                    /\ Cardinality(o.demos \ demos)
                          = IF demoSchema(body) THEN 1 ELSE 0
                    /\ \A d \in o.demos \ demos :
                          /\ d.userId = u.id
                          /\ d.views = 0
                          /\ o.reply.status = 201
                          /\ o.reply.demo = d)
    /\ [][OwnerStep]_vars

\* Ann and Bob each own a Demo; Ann's has been read and Bob's updated.
C8_Witness ==
    \E d \in demos, e \in demos :
        /\ d.userId = 1 /\ d.views > 0
        /\ e.userId = 2 /\ e.title = "B" /\ e.thumbnail = "th"

\* the Demos of the store owned by the User with this id
Owned(userId) == {d \in demos : d.userId = userId}

\* C9: a list by a logged-in user returns exactly the stored Demos that user
\* owns, each once, newest first, and leaves the store unchanged.
C9_List ==
    \A u \in users :
        /\ ListDemos(TokenHeader(u.id)) # {}
        /\ \A o \in ListDemos(TokenHeader(u.id)) :
              LET l == o.reply.list
              IN  /\ o.reply.status = 200
                  /\ {l[i] : i \in 1..Len(l)} = Owned(u.id)
                  /\ Len(l) = Cardinality(Owned(u.id))
                  /\ \A i \in 1..Len(l), j \in 1..Len(l) :
                        i < j => l[i].createdAt >= l[j].createdAt
                  /\ NoEffect(o)

\* Ann owns two Demos, the first of them read once, and Bob none: Ann's list
\* has both, the later one first, and Bob's list is empty.
C9_Witness ==
    /\ Cardinality(Owned(1)) = 2
    /\ \E d \in Owned(1) : d.views = 1
    /\ \E o \in ListDemos(TokenHeader(1)) :
          Len(o.reply.list) = 2 /\ o.reply.list[1].id = 2
    /\ \E o \in ListDemos(TokenHeader(2)) : o.reply.list = <<>>

\* the value a payload that passed the demo schema has for an optional
\* field: the value sent, or the schema's value for a field left out
Parsed(v, absent) == IF v = Undefined THEN absent ELSE v

\* C10 as claimed: an update by the owner with a payload that passes the demo
\* schema overwrites title, description, type, content, thumbnail, url and
\* isPublic with the payload's values and leaves id, owner, view counter,
\* creation time and every other Demo unchanged; a rejected update leaves
\* the store unchanged.
C10_Original ==
    /\ \A s \in Slots :
          reqs[s].pc = "put_update" /\ RowById(reqs[s].req.id) # {} =>
              LET o == PutDemoUpdate(reqs[s])
                  body == reqs[s].req.body
                  row == RowById(reqs[s].req.id)
              IN  /\ o.reply.status = 200
                  /\ demos \ row \subseteq o.demos
                  /\ Cardinality(o.demos) = Cardinality(demos)
                  /\ \A d \in row : \E e \in o.demos :
                        /\ e.id = d.id
                        /\ e.userId = d.userId
                        /\ e.views = d.views
                        /\ e.createdAt = d.createdAt
                        /\ e.title = body.title
                        /\ e.description = body.description
                        /\ e.type = body.type
                        /\ e.content = body.content
                        /\ e.thumbnail = Parsed(body.thumbnail, Null)
                        /\ e.url = Parsed(body.url, Null)
                        /\ e.isPublic = Parsed(body.isPublic, JFalse)
    /\ \A hdr \in Headers, id \in DemoIds, body \in DemoBodies :
          PutDemoFirst(hdr, id, body).reply.status \in {400, 404} =>
              NoEffect(PutDemoFirst(hdr, id, body))

\* the ids of the Demos that were inserted and are no longer stored; only
\* the delete of a DELETE request removes a row
Deleted == {id \in DemoIds : id < nextDemoId /\ RowById(id) = {}}

\* the requests suspended at the write that follows the ownership lookup
WritePcs == {"get_update", "put_update", "delete_delete"}

\* the outcome of the write the suspended request r makes next
WriteOutcome(r) ==
    IF r.pc = "get_update" THEN GetDemoUpdate(r)
    ELSE IF r.pc = "put_update" THEN PutDemoUpdate(r)
    ELSE DeleteDemoDelete(r)

\* the requests that passed their ownership lookup of a Demo since deleted
Overtaken == {s \in Slots : reqs[s].pc \in WritePcs /\ reqs[s].req.id \in Deleted}

\* a Demo absent after having been stored stays absent; the delete of a
\* DELETE request that finds the row removes it; and a request suspended on
\* a deleted Demo returns to idle in the very step that leaves the store as
\* it is
AbsentStep ==
    /\ \A id \in Deleted : RowById(id)' = {}
    /\ \A s \in Slots :
          reqs[s].pc = "delete_delete" /\ reqs'[s] # reqs[s] =>
              RowById(reqs[s].req.id)' = {}
    /\ \A s \in Overtaken : reqs'[s] # reqs[s] => reqs'[s] = Idle /\ demos' = demos

\* C11: once the owner's delete of a Demo has answered with its confirmation
\* message the Demo is absent from the store in every later state, whatever
\* requests interleave: a delete whose row is stored removes it and answers
\* "Demo deleted successfully"; a get-by-id, an update or a second delete
\* that passed its ownership lookup before the row was removed writes
\* nothing and is answered 500 "Internal server error", its connection free
\* again; no step brings a removed Demo back; and every such overtaken
\* request is eventually answered.
C11_DeletedStaysAbsent ==
    /\ [](/\ \A s \in Slots :
                reqs[s].pc = "delete_delete" /\ RowById(reqs[s].req.id) # {} =>
                    LET o == DeleteDemoDelete(reqs[s])
                    IN  /\ o.reply.status = 200
                        /\ o.reply.message = "Demo deleted successfully"
                        /\ o.next = Idle
                        /\ o.demos = demos \ RowById(reqs[s].req.id)
                        /\ \A d \in o.demos : d.id # reqs[s].req.id
          /\ \A s \in Overtaken :
                LET o == WriteOutcome(reqs[s])
                IN  /\ o.reply.status = 500
                    /\ o.reply.message = "Internal server error"
                    /\ o.reply.req.id = reqs[s].req.id
                    /\ NoEffect(o)
          /\ \A hdr \in Headers, body \in DemoBodies, t \in Times :
                \A d \in CreateDemo(hdr, body, t).demos \ demos :
                    d.id \notin Deleted)
    /\ [][AbsentStep]_vars
    /\ \A s \in Slots : (s \in Overtaken) ~> (reqs[s] = Idle)

\* Ann's first Demo was deleted while a get-by-id of it by Ann waited at its
\* increment, and a Demo was created afterwards: the waiting request still
\* holds the row it read, and the store holds only the later Demo.
C11_Witness ==
    \E s \in Overtaken :
        /\ reqs[s].pc = "get_update"
        /\ reqs[s].req.id = 1
        /\ reqs[s].demo.id = 1
        /\ reqs[s].req.user = 1
        /\ \E d \in demos : d.id = 2

====
